---- MODULE Spec2Model ----
(***************************************************************************)
(* The debounced business-hours notification scheduler of bot.py, its      *)
(* ledgers and the daily last-call broadcaster, as a state machine.        *)
(*                                                                         *)
(* Time is the wall clock in the operating timezone, in whole seconds      *)
(* since a Monday 00:00 (no daylight-saving change inside the modelled     *)
(* days).  The event loop is single-threaded and cooperative: a handler    *)
(* or a task step between two awaits is one action.  asyncio.sleep wakes a *)
(* task exactly when its delay has elapsed, and a transport call           *)
(* (send_message) completes within the instant in which it was started,    *)
(* although other handlers may run while it is in flight.                  *)
(***************************************************************************)
EXTENDS Integers, Sequences, FiniteSets, TLC

\* ---------------------------------------------------------------- bounds
\* plain messages handled in one run
MaxMsgs == 3

\* ---------------------------------------------------------------- configuration
Chats == {"g1", "g2", "team", "dm"}
GroupChats == {"g1", "g2", "team"}
Users == {"cust", "agent"}
Periods == {"AM", "PM", "WE", "LUNCH", "CUTOFF"}

AIS_TEAM_CHAT_IDS == {"team"}
SILENT_GROUP_IDS == AIS_TEAM_CHAT_IDS
PREAUTHORIZED_USER_IDS == {"agent"}

Hour == 3600
Minute == 60
DaySeconds == 24 * Hour
WEEKDAY_START == 9 * Hour
WEEKDAY_END == 17 * Hour
WEEKDAY_CUTOFF == 16 * Hour + 30 * 60
LAST_CALL_TIME == 16 * Hour
LUNCH_START == 12 * Hour + 30 * 60
LUNCH_END == 13 * Hour + 30 * 60
FLOOD_BUFFER_SECONDS == 5 * 60
AFTER_HOURS_SUPPRESSION_WINDOW_HOURS == 2
AFTER_HOURS_MIN_SILENCE_FOR_SPIEL_HOURS == 1
COOLDOWN_SECONDS == 7200
POLL_SECONDS == 60
TRANSCRIPT_MAX_MESSAGES == 5

None == -1
NoToken == <<>>
Absent == <<>>
Keys == Chats \X Periods

\* ---------------------------------------------------------------- state
VARIABLES
  start,                \* the instant the process started
  now,                  \* wall clock, seconds since Monday 00:00
  sub,                  \* clock reads that produced a token within this second
  msgs,                 \* plain messages handled so far
  known_group_chats,    \* group chats seen
  team_user_ids,        \* authorized users
  LAST_CHAT_ACTIVITY,   \* chat -> date of last plain message, or None
  CLOSED_SENT_TODAY_AM, \* chat -> date, or None
  CLOSED_SENT_TODAY_PM, \* chat -> date, or None
  LAST_AUTH_MSG_AT,     \* chat -> clock reading, or NoToken
  chat_last_response,   \* <<chat, tag>> -> isoformat text of a time, or Absent
  DEBOUNCE_TOKEN,       \* key -> token, or NoToken
  PENDING_TASK,         \* key -> task number, or 0
  tasks,                \* every timer task created so far, in creation order
  lcPc,                 \* last_call_scheduler: "sleep", or "send" inside the for loop
  lcWake,               \* an instant at which the loop's sleep(60) ends
  lcTargets,            \* the targets list of the iteration in progress
  lcDone,               \* the targets the for loop has been through
  lastCalls,            \* every last-call send so far: [chat, at, ok]
  lcRuns,               \* the instants at which the loop's test passed, in order
  lcLate,               \* the wake-up the loop is sleeping towards comes late
  calls,                \* the calls of the helper functions made so far: [op, args, at, result]
  procs,                \* process started on this host -> its position in main
  chat_buffers,         \* chat -> the last recorded updates, oldest first
  lastReply             \* the last reply_text of a command handler: [chat, text]

vars == <<start, now, sub, msgs, known_group_chats, team_user_ids, LAST_CHAT_ACTIVITY,
          CLOSED_SENT_TODAY_AM, CLOSED_SENT_TODAY_PM, LAST_AUTH_MSG_AT,
          chat_last_response, DEBOUNCE_TOKEN, PENDING_TASK, tasks,
          lcPc, lcWake, lcTargets, lcDone, lastCalls, lcRuns, lcLate, calls, procs,
          chat_buffers, lastReply>>

ledgerVars == <<CLOSED_SENT_TODAY_AM, CLOSED_SENT_TODAY_PM, chat_last_response>>
registryVars == <<known_group_chats, team_user_ids, LAST_CHAT_ACTIVITY>>
lcVars == <<lcPc, lcWake, lcTargets, lcDone, lastCalls, lcRuns, lcLate>>

\* ---------------------------------------------------------------- clock and calendar
Min(a, b) == IF a <= b THEN a ELSE b

\* now_local.strftime("%Y-%m-%d"): the calendar date, as a day number
DateOf(t) == t \div DaySeconds

\* datetime.time(): the time of day
TimeOf(t) == t % DaySeconds

\* datetime.weekday(): Monday is 0
WeekdayOf(t) == DateOf(t) % 7

is_weekend(t) == WeekdayOf(t) >= 5

\* mutant: the closing time itself is outside the office hours
is_office_open_until_before_end(t) ==
  IF is_weekend(t) THEN <<FALSE, FALSE>>
  ELSE <<WEEKDAY_START <= TimeOf(t) /\ TimeOf(t) < WEEKDAY_END,
         TimeOf(t) <= WEEKDAY_CUTOFF>>

\* returns <<open_, before_cutoff>>
is_office_open(t) ==
  IF is_weekend(t) THEN <<FALSE, FALSE>>
  ELSE <<WEEKDAY_START <= TimeOf(t) /\ TimeOf(t) <= WEEKDAY_END,
         TimeOf(t) <= WEEKDAY_CUTOFF>>

is_lunch_time(t) == LUNCH_START <= TimeOf(t) /\ TimeOf(t) <= LUNCH_END

\* ---------------------------------------------------------------- authorization registry
\* mutant: every user is authorized
is_authorized_user_anyone(team, u) == TRUE

is_authorized_user(team, u) == u \in team \/ u \in PREAUTHORIZED_USER_IDS

\* mutant: nobody is recorded
maybe_record_team_member_never(team, c, u) == team

maybe_record_team_member(team, c, u) ==
  IF c \in AIS_TEAM_CHAT_IDS THEN team \cup {u} ELSE team

\* mutant: the update is not appended
record_message_for_transcript_skips(c, entry) == chat_buffers

\* chat_buffers[chat_id].append(entry) on a deque(maxlen=TRANSCRIPT_MAX_MESSAGES);
\* the entry is modelled by the number of the update
record_message_for_transcript(c, entry) ==
  LET buf == Append(chat_buffers[c], entry)
  IN [chat_buffers EXCEPT ![c] =
        IF Len(buf) > TRANSCRIPT_MAX_MESSAGES THEN Tail(buf) ELSE buf]

\* ---------------------------------------------------------------- debounce helpers
\* mutant: the key leaves the chat out
_period_key_without_chat(c, p) == <<"g1", p>>

_period_key(c, p) == <<c, p>>

\* now_in_timezone(): the clock reading, <<second, order within the second>>
now_in_timezone == <<now, sub>>

SecondsOf(reading) == reading[1]

\* reading a was taken before reading b
Before(a, b) == a[1] < b[1] \/ (a[1] = b[1] /\ a[2] < b[2])

\* mutant: the clock is read in whole seconds
_new_token_whole_seconds == <<now, 0>>

\* now_in_timezone().isoformat(): one string per clock reading
_new_token == now_in_timezone

\* mutant: the token check always passes
_is_latest_token_always(c, p, token) == TRUE

_is_latest_token(c, p, token) == DEBOUNCE_TOKEN[_period_key(c, p)] = token

Live(i) == tasks[i].pc # "done"

\* task.cancel() on each task of `ids` that is not done
CancelTasks(ts, ids) ==
  [i \in DOMAIN ts |->
     IF i \in ids /\ ts[i].pc # "done" THEN [ts[i] EXCEPT !.cancel = TRUE] ELSE ts[i]]

\* mutant: pop removes nothing
PopKeys_removes_nothing(keys) == PENDING_TASK

\* PENDING_TASK.pop(key, None) for every key of `keys`
PopKeys(keys) == [k \in Keys |-> IF k \in keys THEN 0 ELSE PENDING_TASK[k]]

\* mutant: the registry entry is left in place
_clear_debounce_keeps_entry(c, p) == PENDING_TASK

_clear_debounce(c, p) == PopKeys({_period_key(c, p)})

NewTask(c, p, token) ==
  [chat |-> c, period |-> p, token |-> token, pc |-> "created", wake |-> None,
   cancel |-> FALSE, sentAt |-> None, delivered |-> FALSE, result |-> "none"]

\* _set_debounce followed by create_task and the registration of the new task
schedule_buffered(c, p) ==
  LET key == _period_key(c, p)
      old == PENDING_TASK[key]
  IN /\ DEBOUNCE_TOKEN' = [DEBOUNCE_TOKEN EXCEPT ![key] = _new_token]
     /\ tasks' = Append(CancelTasks(tasks, {old} \ {0}), NewTask(c, p, _new_token))
     /\ PENDING_TASK' = [PENDING_TASK EXCEPT ![key] = Len(tasks) + 1]
     /\ sub' = sub + 1

\* mutant: the tasks are cancelled but the tokens are left as they are
cancel_all_pending_keep_tokens(c) ==
  LET keys == {_period_key(c, p) : p \in Periods}
  IN /\ tasks' = CancelTasks(tasks, {PENDING_TASK[k] : k \in keys} \ {0})
     /\ PENDING_TASK' = PopKeys(keys)
     /\ UNCHANGED DEBOUNCE_TOKEN
     /\ sub' = sub + 1

cancel_all_pending_for_chat(c) ==
  LET keys == {_period_key(c, p) : p \in Periods}
  IN /\ tasks' = CancelTasks(tasks, {PENDING_TASK[k] : k \in keys} \ {0})
     /\ PENDING_TASK' = PopKeys(keys)
     /\ DEBOUNCE_TOKEN' = [k \in Keys |-> IF k \in keys THEN _new_token ELSE DEBOUNCE_TOKEN[k]]
     /\ sub' = sub + 1

\* ---------------------------------------------------------------- cooldown and suppression
\* datetime.isoformat(): the date, hour, minute and second fields of the text
isoformat(t) ==
  <<DateOf(t), TimeOf(t) \div Hour, (TimeOf(t) % Hour) \div Minute, TimeOf(t) % Minute>>

\* datetime.fromisoformat(): the instant the text denotes, on the model's clock
fromisoformat(text) ==
  text[1] * DaySeconds + text[2] * Hour + text[3] * Minute + text[4]

\* mutant: the end of the window is still inside the cooldown
already_sent_inclusive(c, tag, window_sec) ==
  LET when == chat_last_response[<<c, tag>>]
  IN IF when = Absent THEN FALSE ELSE now - fromisoformat(when) <= window_sec

already_sent(c, tag, window_sec) ==
  LET when == chat_last_response[<<c, tag>>]
  IN IF when = Absent THEN FALSE ELSE now - fromisoformat(when) < window_sec

mark_sent(c, tag) == [chat_last_response EXCEPT ![<<c, tag>>] = isoformat(now)]

set_last_auth_msg(c) == [LAST_AUTH_MSG_AT EXCEPT ![c] = now_in_timezone]

last_auth_msg_age(c) ==
  IF LAST_AUTH_MSG_AT[c] = NoToken THEN None ELSE now - SecondsOf(LAST_AUTH_MSG_AT[c])

within_after_hours_suppression(c) ==
  IF is_office_open(now)[1] THEN FALSE
  ELSE IF last_auth_msg_age(c) = None THEN FALSE
  ELSE last_auth_msg_age(c) <= AFTER_HOURS_SUPPRESSION_WINDOW_HOURS * Hour

\* mutant: the one-hour silence threshold is dropped
allow_after_hours_spiel_no_threshold(c) ==
  IF is_office_open(now)[1] THEN FALSE ELSE TRUE

\* mutant: only the end of the two-hour window allows the notice
allow_after_hours_spiel_window_only(c) ==
  IF is_office_open(now)[1] THEN FALSE
  ELSE IF last_auth_msg_age(c) = None THEN TRUE
  ELSE last_auth_msg_age(c) >= AFTER_HOURS_SUPPRESSION_WINDOW_HOURS * Hour

allow_after_hours_spiel(c) ==
  IF is_office_open(now)[1] THEN FALSE
  ELSE IF last_auth_msg_age(c) = None THEN TRUE
  ELSE IF last_auth_msg_age(c) >= AFTER_HOURS_SUPPRESSION_WINDOW_HOURS * Hour THEN TRUE
  ELSE last_auth_msg_age(c) >= AFTER_HOURS_MIN_SILENCE_FOR_SPIEL_HOURS * Hour

StaffSuppressed_window_only(c) == within_after_hours_suppression(c)

StaffSuppressed(c) == within_after_hours_suppression(c) /\ ~allow_after_hours_spiel(c)

\* LAST_AUTH_MSG_AT[c] is a time of today at or before the cutoff
\* mutant: a staff message at the cutoff instant itself does not count
authorized_initiated_before_cutoff_today(c) ==
  /\ LAST_AUTH_MSG_AT[c] # NoToken
  /\ DateOf(SecondsOf(LAST_AUTH_MSG_AT[c])) = DateOf(now)
  /\ TimeOf(SecondsOf(LAST_AUTH_MSG_AT[c])) < WEEKDAY_CUTOFF

authorized_initiated_on_or_before_cutoff_today(c) ==
  /\ LAST_AUTH_MSG_AT[c] # NoToken
  /\ DateOf(SecondsOf(LAST_AUTH_MSG_AT[c])) = DateOf(now)
  /\ TimeOf(SecondsOf(LAST_AUTH_MSG_AT[c])) <= WEEKDAY_CUTOFF

\* the test of the CUTOFF branch of _buffer_then_send: ts is set, its local date is
\* the date of now_local and its local time is at or before WEEKDAY_CUTOFF
cutoff_suppressed_at_fire(c) ==
  IF LAST_AUTH_MSG_AT[c] = NoToken THEN FALSE
  ELSE LET ts_local == SecondsOf(LAST_AUTH_MSG_AT[c])
       IN DateOf(ts_local) = DateOf(now) /\ TimeOf(ts_local) <= WEEKDAY_CUTOFF

\* ---------------------------------------------------------------- message handler
\* mutant: the cutoff branch does not look at the last staff message
PeriodToArm_without_staff_test(c) ==
  IF is_weekend(now) THEN (IF c \in GroupChats THEN "WE" ELSE "none")
  ELSE IF is_lunch_time(now) THEN (IF c \in GroupChats THEN "LUNCH" ELSE "none")
  ELSE IF is_office_open(now)[1] THEN
    (IF ~is_office_open(now)[2] /\ c \in GroupChats THEN "CUTOFF" ELSE "none")
  ELSE IF c \notin GroupChats THEN "none"
  ELSE IF TimeOf(now) >= WEEKDAY_END THEN "PM"
  ELSE IF TimeOf(now) < WEEKDAY_START THEN "AM"
  ELSE "none"

\* the period message_handler arms for a non-authorized message, or "none"
PeriodToArm(c) ==
  IF is_weekend(now) THEN (IF c \in GroupChats THEN "WE" ELSE "none")
  ELSE IF is_lunch_time(now) THEN (IF c \in GroupChats THEN "LUNCH" ELSE "none")
  ELSE IF is_office_open(now)[1] THEN
    (IF ~is_office_open(now)[2] /\ c \in GroupChats
        /\ ~authorized_initiated_on_or_before_cutoff_today(c)
     THEN "CUTOFF" ELSE "none")
  ELSE IF c \notin GroupChats THEN "none"
  ELSE IF TimeOf(now) >= WEEKDAY_END THEN "PM"
  ELSE IF TimeOf(now) < WEEKDAY_START THEN "AM"
  ELSE "none"

\* a plain (non-command) text message of user u in chat c
Message(c, u) ==
  /\ known_group_chats' = IF c \in GroupChats THEN known_group_chats \cup {c}
                          ELSE known_group_chats
  /\ team_user_ids' = maybe_record_team_member(team_user_ids, c, u)
  /\ LAST_CHAT_ACTIVITY' = [LAST_CHAT_ACTIVITY EXCEPT ![c] = DateOf(now)]
  /\ msgs < MaxMsgs
  /\ msgs' = msgs + 1
  /\ chat_buffers' = record_message_for_transcript(c, msgs')
  /\ UNCHANGED <<start, lastReply, procs, calls, now, ledgerVars, lcVars>>
  /\ IF c \in SILENT_GROUP_IDS THEN
       UNCHANGED <<sub, LAST_AUTH_MSG_AT, DEBOUNCE_TOKEN, PENDING_TASK, tasks>>
     ELSE IF is_authorized_user(team_user_ids', u) THEN
       /\ LAST_AUTH_MSG_AT' = set_last_auth_msg(c)
       /\ cancel_all_pending_for_chat(c)
     ELSE IF PeriodToArm(c) # "none" THEN
       /\ schedule_buffered(c, PeriodToArm(c))
       /\ UNCHANGED LAST_AUTH_MSG_AT
     ELSE
       UNCHANGED <<sub, LAST_AUTH_MSG_AT, DEBOUNCE_TOKEN, PENDING_TASK, tasks>>

\* a command of user u in chat c, at the instant its reply returns (ok) or raises:
\* require_authorized, then the handler; "generic" is one of /lt /apd /mvr /sign
\* /emails (generic_command_handler), "transcript" one of /ssi /sse /ssc, "other" any
\* other registered command
CommandKinds == {"generic", "transcript", "other"}

Reply(c, text) == [chat |-> c, text |-> text]

\* the first reply of the handler body: _send_transcript_email reads the chat's
\* buffer, the other handlers send their text
HandlerReply(kind, entries) ==
  IF kind # "transcript" THEN "text"
  ELSE IF entries = <<>> THEN "No recent text messages to capture for this chat."
  ELSE "Preparing transcript"

Command(c, u, kind, ok) ==
  /\ msgs < MaxMsgs
  /\ msgs' = msgs + 1
  /\ team_user_ids' = maybe_record_team_member(team_user_ids, c, u)
  /\ UNCHANGED <<start, procs, calls, now, known_group_chats, LAST_CHAT_ACTIVITY, ledgerVars,
                 lcVars>>
  /\ IF ~is_authorized_user(team_user_ids', u) THEN
       /\ lastReply' = IF ok THEN Reply(c, "Not authorized.") ELSE lastReply
       /\ UNCHANGED <<chat_buffers, sub, LAST_AUTH_MSG_AT, DEBOUNCE_TOKEN, PENDING_TASK, tasks>>
     ELSE
       /\ chat_buffers' = record_message_for_transcript(c, msgs')
       /\ lastReply' = IF ok THEN Reply(c, HandlerReply(kind, chat_buffers'[c])) ELSE lastReply
       /\ IF kind = "generic" /\ ok THEN
            /\ LAST_AUTH_MSG_AT' = set_last_auth_msg(c)
            /\ cancel_all_pending_for_chat(c)
          ELSE
            UNCHANGED <<sub, LAST_AUTH_MSG_AT, DEBOUNCE_TOKEN, PENDING_TASK, tasks>>

\* ---------------------------------------------------------------- timer task
\* what _buffer_then_send decides once its token is the latest, in the code's order
FireOutcome(c, p) ==
  IF p \in {"AM", "PM"} THEN
    IF is_office_open(now)[1] THEN "open"
    ELSE IF c \notin known_group_chats THEN "unknown"
    ELSE IF (IF p = "AM" THEN CLOSED_SENT_TODAY_AM[c] ELSE CLOSED_SENT_TODAY_PM[c]) = DateOf(now)
      THEN "daygate"
    ELSE IF StaffSuppressed(c) THEN "staff"
    ELSE "send"
  ELSE IF p = "WE" THEN
    IF ~is_weekend(now) THEN "window"
    ELSE IF is_office_open(now)[1] THEN "open"
    ELSE IF c \notin known_group_chats THEN "unknown"
    ELSE IF StaffSuppressed(c) THEN "staff"
    ELSE IF already_sent(c, "weekend", COOLDOWN_SECONDS) THEN "cooldown"
    ELSE "send"
  ELSE IF p = "LUNCH" THEN
    IF ~(LUNCH_START <= TimeOf(now) /\ TimeOf(now) <= LUNCH_END) THEN "window"
    ELSE IF c \notin known_group_chats THEN "unknown"
    ELSE IF already_sent(c, "lunch", COOLDOWN_SECONDS) THEN "cooldown"
    ELSE "send"
  ELSE
    IF ~is_office_open(now)[1] \/ TimeOf(now) < WEEKDAY_CUTOFF \/ TimeOf(now) > WEEKDAY_END
      THEN "window"
    ELSE IF c \notin known_group_chats THEN "unknown"
    ELSE IF cutoff_suppressed_at_fire(c) THEN "staffinit"
    ELSE IF already_sent(c, "cutoff", COOLDOWN_SECONDS) THEN "cooldown"
    ELSE "send"

TagOf(p) == IF p = "WE" THEN "weekend" ELSE IF p = "LUNCH" THEN "lunch" ELSE "cutoff"

\* mutant: the task does not sleep
SleepUntil_no_delay == now

\* asyncio.sleep(FLOOD_BUFFER_SECONDS), started now, ends at this instant
SleepUntil == now + FLOOD_BUFFER_SECONDS

Finish(i, res) == [tasks EXCEPT ![i].pc = "done", ![i].result = res]

\* the first step of a task: a task cancelled before it ever ran ends without
\* entering the try block; otherwise it starts asyncio.sleep(FLOOD_BUFFER_SECONDS)
TaskStart(i) ==
  /\ i \in DOMAIN tasks
  /\ tasks[i].pc = "created"
  /\ IF tasks[i].cancel
       THEN tasks' = Finish(i, "cancelled")
       ELSE tasks' = [tasks EXCEPT ![i].pc = "sleep", ![i].wake = SleepUntil]
  /\ UNCHANGED <<lcVars, start, chat_buffers, lastReply, procs, calls, now, sub, msgs, registryVars, ledgerVars, LAST_AUTH_MSG_AT,
                 DEBOUNCE_TOKEN, PENDING_TASK>>

\* CancelledError raised at the await the task is suspended in, then the finally
TaskCancelled(i) ==
  /\ i \in DOMAIN tasks
  /\ tasks[i].pc \in {"sleep", "send"}
  /\ tasks[i].cancel
  /\ tasks' = Finish(i, "cancelled")
  /\ PENDING_TASK' = _clear_debounce(tasks[i].chat, tasks[i].period)
  /\ UNCHANGED <<lcVars, start, chat_buffers, lastReply, procs, calls, now, sub, msgs, registryVars, ledgerVars, LAST_AUTH_MSG_AT, DEBOUNCE_TOKEN>>

\* the sleep is over: token check, window checks, and the call of send_message
TaskFire(i) ==
  /\ i \in DOMAIN tasks
  /\ tasks[i].pc = "sleep"
  /\ ~tasks[i].cancel
  /\ tasks[i].wake <= now
  /\ LET c == tasks[i].chat
         p == tasks[i].period
         out == IF ~_is_latest_token(c, p, tasks[i].token) THEN "stale" ELSE FireOutcome(c, p)
     IN IF out = "send"
          THEN /\ tasks' = [tasks EXCEPT ![i].pc = "send", ![i].sentAt = now]
               /\ UNCHANGED PENDING_TASK
          ELSE /\ tasks' = Finish(i, out)
               /\ PENDING_TASK' = _clear_debounce(c, p)
  /\ UNCHANGED <<lcVars, start, chat_buffers, lastReply, procs, calls, now, sub, msgs, registryVars, ledgerVars, LAST_AUTH_MSG_AT, DEBOUNCE_TOKEN>>

\* the transport delivers the notice of a send in flight
Deliver(i) ==
  /\ i \in DOMAIN tasks
  /\ tasks[i].pc = "send"
  /\ ~tasks[i].delivered
  /\ tasks' = [tasks EXCEPT ![i].delivered = TRUE]
  /\ UNCHANGED <<lcVars, start, chat_buffers, lastReply, procs, calls, now, sub, msgs, registryVars, ledgerVars, LAST_AUTH_MSG_AT,
                 DEBOUNCE_TOKEN, PENDING_TASK>>

\* send_message returns: the gate or the last-sent time is recorded, then the finally
SendReturn(i) ==
  /\ i \in DOMAIN tasks
  /\ tasks[i].pc = "send"
  /\ tasks[i].delivered
  /\ ~tasks[i].cancel
  /\ LET c == tasks[i].chat
         p == tasks[i].period
     IN /\ CLOSED_SENT_TODAY_AM' =
             IF p = "AM" THEN [CLOSED_SENT_TODAY_AM EXCEPT ![c] = DateOf(tasks[i].sentAt)]
             ELSE CLOSED_SENT_TODAY_AM
        /\ CLOSED_SENT_TODAY_PM' =
             IF p = "PM" THEN [CLOSED_SENT_TODAY_PM EXCEPT ![c] = DateOf(tasks[i].sentAt)]
             ELSE CLOSED_SENT_TODAY_PM
        /\ chat_last_response' =
             IF p \in {"WE", "LUNCH", "CUTOFF"} THEN mark_sent(c, TagOf(p))
             ELSE chat_last_response
        /\ PENDING_TASK' = _clear_debounce(c, p)
  /\ tasks' = Finish(i, "ok")
  /\ UNCHANGED <<lcVars, start, chat_buffers, lastReply, procs, calls, now, sub, msgs, registryVars, LAST_AUTH_MSG_AT, DEBOUNCE_TOKEN>>

\* send_message raises: nothing is recorded, the finally runs, the error leaves the task
SendFail(i) ==
  /\ i \in DOMAIN tasks
  /\ tasks[i].pc = "send"
  /\ ~tasks[i].delivered
  /\ ~tasks[i].cancel
  /\ tasks' = Finish(i, "error")
  /\ PENDING_TASK' = _clear_debounce(tasks[i].chat, tasks[i].period)
  /\ UNCHANGED <<lcVars, start, chat_buffers, lastReply, procs, calls, now, sub, msgs, registryVars, ledgerVars, LAST_AUTH_MSG_AT, DEBOUNCE_TOKEN>>

\* ---------------------------------------------------------------- time
\* a task that runs before the clock moves on: it was just created or cancelled,
\* its delay has elapsed, or its send is in flight
Urgent(i) ==
  \/ tasks[i].pc \in {"created", "send"}
  \/ tasks[i].pc = "sleep" /\ (tasks[i].cancel \/ tasks[i].wake <= now)

Sleeping == {i \in DOMAIN tasks : tasks[i].pc = "sleep"}

\* the earliest of t and the wake-up times of the sleeping tasks
RECURSIVE EarliestWake(_, _)
EarliestWake(t, ids) ==
  IF ids = {} THEN t
  ELSE LET i == CHOOSE j \in ids : TRUE
       IN EarliestWake(Min(t, tasks[i].wake), ids \ {i})

\* ---------------------------------------------------------------- last-call broadcaster
\* the loop's test: a weekday, hour and minute equal to LAST_CALL_TIME
IsLastCallMinute(t) ==
  /\ WeekdayOf(t) < 5
  /\ TimeOf(t) \div Hour = LAST_CALL_TIME \div Hour
  /\ (TimeOf(t) % Hour) \div 60 = (LAST_CALL_TIME % Hour) \div 60

\* the first wake-up of the loop, which wakes every POLL_SECONDS from lcWake on, at
\* or after the beginning of the last-call minute of date d
WakeInMinuteOf(d) ==
  LET from == d * DaySeconds + LAST_CALL_TIME
      gap == IF from > lcWake THEN from - lcWake ELSE 0
  IN lcWake + POLL_SECONDS * ((gap + POLL_SECONDS - 1) \div POLL_SECONDS)

\* the first wake-up from lcWake on at which the loop's test holds
NextLastCall ==
  LET days == {d \in DateOf(lcWake)..(DateOf(lcWake) + 3) :
                 IsLastCallMinute(WakeInMinuteOf(d))}
      first == CHOOSE d \in days : \A e \in days : d <= e
  IN WakeInMinuteOf(first)

LastCallTargets_all_active == {c \in Chats : LAST_CHAT_ACTIVITY[c] # None}

\* targets = [cid for cid, d in LAST_CHAT_ACTIVITY.items() if d == today_str and ...]
LastCallTargets ==
  {c \in Chats : LAST_CHAT_ACTIVITY[c] = DateOf(now) /\ c \notin SILENT_GROUP_IDS}

\* an iteration of the loop in the last-call minute: the targets are computed
LastCallWake ==
  /\ lcPc = "sleep"
  /\ now = NextLastCall
  /\ lcPc' = "send"
  /\ lcTargets' = LastCallTargets
  /\ lcDone' = {}
  /\ lcRuns' = Append(lcRuns, now)
  /\ UNCHANGED <<lcWake, lastCalls, lcLate>>
  /\ UNCHANGED <<start, chat_buffers, lastReply, procs, calls, now, sub, msgs, registryVars, ledgerVars, LAST_AUTH_MSG_AT,
                 DEBOUNCE_TOKEN, PENDING_TASK, tasks>>

\* mutant: an error of one send ends the for loop
LastCallSend_stops_on_error(c, ok) ==
  /\ lcPc = "send"
  /\ c \in lcTargets \ lcDone
  /\ lcDone' = IF ok THEN lcDone \cup {c} ELSE lcTargets
  /\ lastCalls' = Append(lastCalls, [chat |-> c, at |-> now, ok |-> ok])
  /\ UNCHANGED <<lcPc, lcWake, lcTargets, lcRuns, lcLate>>
  /\ UNCHANGED <<start, chat_buffers, lastReply, procs, calls, now, sub, msgs, registryVars, ledgerVars, LAST_AUTH_MSG_AT,
                 DEBOUNCE_TOKEN, PENDING_TASK, tasks>>

\* one pass of the for loop: send_message to c, an error is logged
LastCallSend(c, ok) ==
  /\ lcPc = "send"
  /\ c \in lcTargets \ lcDone
  /\ lcDone' = lcDone \cup {c}
  /\ lastCalls' = Append(lastCalls, [chat |-> c, at |-> now, ok |-> ok])
  /\ UNCHANGED <<lcPc, lcWake, lcTargets, lcRuns, lcLate>>
  /\ UNCHANGED <<start, chat_buffers, lastReply, procs, calls, now, sub, msgs, registryVars, ledgerVars, LAST_AUTH_MSG_AT,
                 DEBOUNCE_TOKEN, PENDING_TASK, tasks>>

\* mutant: the loop sleeps half a minute
LastCallNextWake_half_minute == now + POLL_SECONDS \div 2

\* asyncio.sleep(60), started now, ends at this instant at the earliest
LastCallNextWake == now + POLL_SECONDS

\* the for loop is over: asyncio.sleep(60)
LastCallSleep ==
  /\ lcPc = "send"
  /\ lcDone = lcTargets
  /\ lcPc' = "sleep"
  /\ lcWake' = LastCallNextWake
  /\ lcTargets' = {}
  /\ lcDone' = {}
  /\ lcLate' = FALSE
  /\ UNCHANGED <<lastCalls, lcRuns>>
  /\ UNCHANGED <<start, chat_buffers, lastReply, procs, calls, now, sub, msgs, registryVars, ledgerVars, LAST_AUTH_MSG_AT,
                 DEBOUNCE_TOKEN, PENDING_TASK, tasks>>

\* the loop's period is POLL_SECONDS plus the time its iteration and the event loop
\* take: the wake-up that would fall into the last-call minute comes a second later
LastCallLate ==
  /\ lcPc = "sleep"
  /\ ~lcLate
  /\ now <= NextLastCall
  /\ NextLastCall - POLL_SECONDS <= now
  /\ lcWake' = NextLastCall + 1
  /\ lcLate' = TRUE
  /\ UNCHANGED <<lcPc, lcTargets, lcDone, lastCalls, lcRuns>>
  /\ UNCHANGED <<start, chat_buffers, lastReply, procs, calls, now, sub, msgs, registryVars, ledgerVars, LAST_AUTH_MSG_AT,
                 DEBOUNCE_TOKEN, PENDING_TASK, tasks>>

\* the clock moves on to instant t, or to the first wake-up before it: of a
\* sleeping task, or of the broadcaster in the last-call minute
Tick(t) ==
  /\ t > now
  /\ \A i \in DOMAIN tasks : ~Urgent(i)
  /\ lcPc = "sleep"
  /\ NextLastCall > now
  /\ now' = Min(EarliestWake(t, Sleeping), NextLastCall)
  /\ sub' = 0
  /\ UNCHANGED <<start, chat_buffers, lastReply, procs, calls, msgs, registryVars, ledgerVars, LAST_AUTH_MSG_AT, DEBOUNCE_TOKEN,
                 PENDING_TASK, tasks, lcVars>>
\* the system clock is set back to instant t (time.time(), which datetime.now reads,
\* returns a lower value than before when the system clock has been set back)
ClockSetBack(t) ==
  /\ t < now
  /\ t >= start
  /\ now' = t
  /\ sub' = 0
  /\ UNCHANGED <<start, chat_buffers, lastReply, procs, calls, msgs, registryVars, ledgerVars,
                 LAST_AUTH_MSG_AT, DEBOUNCE_TOKEN, PENDING_TASK, tasks, lcVars>>

\* the event loop runs the next timer: the clock reaches the earliest wake-up
TimerDue == \E i \in Sleeping : Tick(tasks[i].wake)

\* ---------------------------------------------------------------- process start
MaxProcs == 4
Procs == 1..MaxProcs

\* the processes that hold a listening socket on 127.0.0.1:CONFLICT_GUARD_PORT
Listening == {q \in Procs : procs[q] \in {"guarded", "polling"}}

\* s.bind() with SO_REUSEADDR: raises when a listening socket is bound to the address
GuardBind(p) ==
  /\ procs[p] = "new"
  /\ procs' = [procs EXCEPT ![p] = IF Listening = {} THEN "bound" ELSE "returned"]
  /\ UNCHANGED <<start, chat_buffers, lastReply, calls, now, sub, msgs, registryVars, ledgerVars, LAST_AUTH_MSG_AT,
                 DEBOUNCE_TOKEN, PENDING_TASK, tasks, lcVars>>

\* mutant: listen() succeeds beside another listening socket
GuardListen_shared(p) ==
  /\ procs[p] = "bound"
  /\ procs' = [procs EXCEPT ![p] = "guarded"]
  /\ UNCHANGED <<start, chat_buffers, lastReply, calls, now, sub, msgs, registryVars, ledgerVars, LAST_AUTH_MSG_AT,
                 DEBOUNCE_TOKEN, PENDING_TASK, tasks, lcVars>>

\* s.listen(1): raises when another socket already listens on the port; the guard
\* then returns None and main returns
GuardListen(p) ==
  /\ procs[p] = "bound"
  /\ procs' = [procs EXCEPT ![p] = IF Listening = {} THEN "guarded" ELSE "returned"]
  /\ UNCHANGED <<start, chat_buffers, lastReply, calls, now, sub, msgs, registryVars, ledgerVars, LAST_AUTH_MSG_AT,
                 DEBOUNCE_TOKEN, PENDING_TASK, tasks, lcVars>>

\* main past the guard: the handlers are registered, the broadcaster is started and
\* run_polling is entered
MainStart(p) ==
  /\ procs[p] = "guarded"
  /\ procs' = [procs EXCEPT ![p] = "polling"]
  /\ UNCHANGED <<start, chat_buffers, lastReply, calls, now, sub, msgs, registryVars, ledgerVars, LAST_AUTH_MSG_AT,
                 DEBOUNCE_TOKEN, PENDING_TASK, tasks, lcVars>>

\* ---------------------------------------------------------------- helper calls
MaxCalls == 4

\* a call of a helper function, as it is logged in `calls`
Call(op, args, result) == [op |-> op, args |-> args, at |-> now, result |-> result]

\* mark_sent(c, tag) is called
MarkSentCall(c, tag) ==
  /\ Len(calls) < MaxCalls
  /\ chat_last_response' = mark_sent(c, tag)
  /\ calls' = Append(calls, Call("mark_sent", <<c, tag>>, TRUE))
  /\ UNCHANGED <<start, chat_buffers, lastReply, procs, now, sub, msgs, registryVars, CLOSED_SENT_TODAY_AM,
                 CLOSED_SENT_TODAY_PM, LAST_AUTH_MSG_AT, DEBOUNCE_TOKEN, PENDING_TASK,
                 tasks, lcVars>>

\* already_sent(c, tag, window_sec) is called: it reads chat_last_response and the clock
AlreadySentCall(c, tag, window_sec) ==
  /\ Len(calls) < MaxCalls
  /\ calls' = Append(calls, Call("already_sent", <<c, tag, window_sec>>,
                                 already_sent(c, tag, window_sec)))
  /\ UNCHANGED <<start, chat_buffers, lastReply, procs, now, sub, msgs, registryVars, ledgerVars, LAST_AUTH_MSG_AT,
                 DEBOUNCE_TOKEN, PENDING_TASK, tasks, lcVars>>

\* is_office_open() is called: it reads the clock
IsOfficeOpenCall ==
  /\ Len(calls) < MaxCalls
  /\ calls' = Append(calls, Call("is_office_open", <<>>, is_office_open(now)))
  /\ UNCHANGED <<start, chat_buffers, lastReply, procs, now, sub, msgs, registryVars, ledgerVars, LAST_AUTH_MSG_AT,
                 DEBOUNCE_TOKEN, PENDING_TASK, tasks, lcVars>>

\* ---------------------------------------------------------------- specification

\* the process starts at a whole minute of a weekday or of a Saturday
StartTimes ==
  { 4 * DaySeconds + 23 * Hour + 56 * Minute,   \* Friday 23:56
    5 * DaySeconds + 10 * Hour,                 \* Saturday 10:00
    1 * DaySeconds + 12 * Hour + 28 * Minute,   \* Tuesday 12:28
    1 * DaySeconds + 15 * Hour + 58 * Minute,   \* Tuesday 15:58
    1 * DaySeconds + 8 * Hour + 53 * Minute }   \* Tuesday 08:53

\* the instants, counted from the start, at which messages arrive
Offsets == {0, 2 * Minute, 4 * Minute, 55 * Minute, 60 * Minute, 115 * Minute, 120 * Minute}

InitExceptBuffers(t0) ==
  /\ start = t0
  /\ now = t0
  /\ sub = 0
  /\ msgs = 0
  /\ known_group_chats = {}
  /\ team_user_ids = PREAUTHORIZED_USER_IDS
  /\ LAST_CHAT_ACTIVITY = [c \in Chats |-> None]
  /\ CLOSED_SENT_TODAY_AM = [c \in Chats |-> None]
  /\ CLOSED_SENT_TODAY_PM = [c \in Chats |-> None]
  /\ LAST_AUTH_MSG_AT = [c \in Chats |-> NoToken]
  /\ chat_last_response = [k \in Chats \X {"weekend", "lunch", "cutoff"} |-> Absent]
  /\ DEBOUNCE_TOKEN = [k \in Keys |-> NoToken]
  /\ PENDING_TASK = [k \in Keys |-> 0]
  /\ tasks = <<>>
  /\ lcPc = "sleep"
  /\ lcWake = t0
  /\ lcTargets = {}
  /\ lcDone = {}
  /\ lastCalls = <<>>
  /\ lcRuns = <<>>
  /\ lcLate = FALSE
  /\ calls = <<>>
  /\ lastReply = Reply("none", "none")

InitProgram(t0) == InitExceptBuffers(t0) /\ chat_buffers = [c \in Chats |-> <<>>]

\* one process of this host is past the guard and polling
InitAt(t0) == InitProgram(t0) /\ procs = [p \in Procs |-> IF p = 1 THEN "polling" ELSE "new"]

Init == \E t0 \in StartTimes : InitAt(t0)

\* one customer group chat, a customer and a staff member
Next ==
  \/ \E u \in Users : Message("g1", u)
  \/ \E i \in 1..MaxMsgs : TaskStart(i)
  \/ \E i \in 1..MaxMsgs : TaskCancelled(i)
  \/ \E i \in 1..MaxMsgs : TaskFire(i)
  \/ \E i \in 1..MaxMsgs : Deliver(i)
  \/ \E i \in 1..MaxMsgs : SendReturn(i)
  \/ \E i \in 1..MaxMsgs : SendFail(i)
  \/ LastCallWake
  \/ \E c \in Chats, ok \in BOOLEAN : LastCallSend(c, ok)
  \/ LastCallSleep
  \/ LastCallLate
  \/ \E o \in Offsets : Tick(start + o)
  \/ TimerDue

Spec == Init /\ [][Next]_vars

\* the broadcaster with a customer group, the staff group and a direct chat, from a
\* Monday afternoon to the Tuesday afternoon
LastCallStart == 15 * Hour + 58 * Minute
LastCallOffsets == {0, 2 * Minute, 33 * Minute, DaySeconds, DaySeconds + 2 * Minute}

InitLastCall == InitAt(LastCallStart)

NextLastCallSpec ==
  \/ \E c \in {"g1", "team"}, u \in Users : Message(c, u)
  \/ Message("dm", "cust")
  \/ \E i \in 1..MaxMsgs : TaskStart(i)
  \/ \E i \in 1..MaxMsgs : TaskCancelled(i)
  \/ \E i \in 1..MaxMsgs : TaskFire(i)
  \/ \E i \in 1..MaxMsgs : Deliver(i)
  \/ \E i \in 1..MaxMsgs : SendReturn(i)
  \/ \E i \in 1..MaxMsgs : SendFail(i)
  \/ LastCallWake
  \/ \E c \in Chats, ok \in BOOLEAN : LastCallSend(c, ok)
  \/ LastCallSleep
  \/ LastCallLate
  \/ \E o \in LastCallOffsets : Tick(start + o)
  \/ TimerDue

SpecLastCall == InitLastCall /\ [][NextLastCallSpec]_vars

\* a Tuesday from 15:58 on, past the close, under the event loop's scheduling: a
\* ready task is run, a timer that is due is fired, a send_message call in flight
\* returns or raises, and the clock reaches the next timer
BurstStart == DaySeconds + 15 * Hour + 58 * Minute
BurstOffsets == {0, 2 * Minute, 62 * Minute, 64 * Minute, 66 * Minute}

InitBurst == InitAt(BurstStart)

NextBurst ==
  \/ \E u \in Users : Message("g1", u)
  \/ \E i \in 1..MaxMsgs : TaskStart(i)
  \/ \E i \in 1..MaxMsgs : TaskCancelled(i)
  \/ \E i \in 1..MaxMsgs : TaskFire(i)
  \/ \E i \in 1..MaxMsgs : Deliver(i)
  \/ \E i \in 1..MaxMsgs : SendReturn(i)
  \/ \E i \in 1..MaxMsgs : SendFail(i)
  \/ LastCallWake
  \/ \E c \in Chats, ok \in BOOLEAN : LastCallSend(c, ok)
  \/ LastCallSleep
  \/ LastCallLate
  \/ \E o \in BurstOffsets : Tick(start + o)
  \/ TimerDue

Scheduling ==
  /\ \A i \in 1..MaxMsgs : WF_vars(TaskStart(i))
  /\ \A i \in 1..MaxMsgs : WF_vars(TaskCancelled(i))
  /\ \A i \in 1..MaxMsgs : WF_vars(TaskFire(i))
  /\ \A i \in 1..MaxMsgs : WF_vars(Deliver(i) \/ SendReturn(i) \/ SendFail(i))
  /\ WF_vars(LastCallWake)
  /\ WF_vars(\E c \in Chats, ok \in BOOLEAN : LastCallSend(c, ok))
  /\ WF_vars(LastCallSleep)
  /\ WF_vars(TimerDue)

SpecBurst == InitBurst /\ [][NextBurst]_vars /\ Scheduling

\* the broadcaster alone around the last-call minute of a Monday and of the Tuesday,
\* the process having started at the beginning or at the last second of a minute;
\* no timer is armed at these instants (the office is open, before the cutoff)
PollStarts == {15 * Hour + 58 * Minute, 15 * Hour + 58 * Minute + 59}
PollOffsets == {0, Minute, 2 * Minute, 3 * Minute, DaySeconds, DaySeconds + 3 * Minute}

InitPoll == \E t0 \in PollStarts : InitAt(t0)

NextPoll ==
  \/ \E c \in {"g1", "dm"} : Message(c, "cust")
  \/ LastCallWake
  \/ \E c \in Chats, ok \in BOOLEAN : LastCallSend(c, ok)
  \/ LastCallSleep
  \/ LastCallLate
  \/ \E o \in PollOffsets : Tick(start + o)

SpecPoll == InitPoll /\ [][NextPoll]_vars

\* the staff group and a customer group on a Saturday morning: messages and commands
\* of a preauthorized and of a not preauthorized user
\* mark_sent and already_sent called for two tags of one chat, with two windows, at
\* instants around the ends of the windows
CooldownStart == 5 * DaySeconds + 23 * Hour
CooldownWindows == {Minute, COOLDOWN_SECONDS}
CooldownOffsets == {0, Minute - 1, Minute, COOLDOWN_SECONDS - 1, COOLDOWN_SECONDS}

InitCooldown == InitAt(CooldownStart)

NextCooldown ==
  \/ \E tag \in {"weekend", "lunch"} : MarkSentCall("g1", tag)
  \/ \E w \in CooldownWindows : AlreadySentCall("g1", "weekend", w)
  \/ \E o \in CooldownOffsets : Tick(start + o)

SpecCooldown == InitCooldown /\ [][NextCooldown]_vars

\* is_office_open called at every whole minute of a week and one second later
OfficeInstants == {d * DaySeconds + m * Minute : d \in 0..6, m \in 0..(24 * 60 - 1)}

InitOffice == \E t0 \in OfficeInstants : InitAt(t0)

NextOffice ==
  \/ IsOfficeOpenCall
  \/ Tick(start + 1)

SpecOffice == InitOffice /\ [][NextOffice]_vars

\* two customer groups on a Saturday: messages of a customer in both, messages of a
\* staff member in one and /lt-style commands of the staff member in the other
IsolationStart == 5 * DaySeconds + 10 * Hour
IsolationOffsets == {0, 2 * Minute, 5 * Minute}

InitIsolation == InitAt(IsolationStart)

NextIsolation ==
  \/ \E c \in {"g1", "g2"} : Message(c, "cust")
  \/ Message("g2", "agent")
  \/ Command("g1", "agent", "generic", TRUE)
  \/ \E i \in 1..MaxMsgs : TaskStart(i)
  \/ \E i \in 1..MaxMsgs : TaskCancelled(i)
  \/ \E i \in 1..MaxMsgs : TaskFire(i)
  \/ \E i \in 1..MaxMsgs : Deliver(i)
  \/ \E i \in 1..MaxMsgs : SendReturn(i)
  \/ \E i \in 1..MaxMsgs : SendFail(i)
  \/ \E o \in IsolationOffsets : Tick(start + o)
  \/ TimerDue

SpecIsolation == InitIsolation /\ [][NextIsolation]_vars

\* the processes of one host start in any order, their system calls interleaved
InitGuard == InitProgram(0) /\ procs = [p \in Procs |-> "new"]

NextGuard ==
  \/ \E p \in Procs : GuardBind(p)
  \/ \E p \in Procs : GuardListen(p)
  \/ \E p \in Procs : MainStart(p)

SpecGuard == InitGuard /\ [][NextGuard]_vars

\* one customer group on a Saturday, on a host whose clock can be set back
ClockStart == 5 * DaySeconds + 10 * Hour
ClockOffsets == {0, 2 * Minute}

InitClock == InitAt(ClockStart)

NextClock ==
  \/ \E u \in Users : Message("g1", u)
  \/ \E i \in 1..MaxMsgs : TaskStart(i)
  \/ \E i \in 1..MaxMsgs : TaskCancelled(i)
  \/ \E i \in 1..MaxMsgs : TaskFire(i)
  \/ \E i \in 1..MaxMsgs : Deliver(i)
  \/ \E i \in 1..MaxMsgs : SendReturn(i)
  \/ \E i \in 1..MaxMsgs : SendFail(i)
  \/ \E o \in ClockOffsets : Tick(start + o)
  \/ ClockSetBack(start)
  \/ TimerDue

SpecClock == InitClock /\ [][NextClock]_vars

\* plain messages of a customer and of a staff member in two groups and a direct
\* chat, at the ends of the office, lunch and cutoff windows and a minute later, on
\* a Monday and on a Saturday
KindStarts ==
  {d * DaySeconds + t : d \in {0, 5},
                        t \in {8 * Hour + 59 * Minute, 12 * Hour + 29 * Minute,
                               12 * Hour + 30 * Minute, 13 * Hour + 30 * Minute,
                               16 * Hour + 30 * Minute, 16 * Hour + 59 * Minute,
                               17 * Hour}}

InitKind == \E t0 \in KindStarts : InitAt(t0)

NextKind ==
  \/ \E c \in {"g1", "g2", "dm"}, u \in Users : Message(c, u)
  \/ Tick(start + 1)
  \/ Tick(start + Minute)

SpecKind == InitKind /\ [][NextKind]_vars

\* two customer groups around the cutoff of a Monday: staff write in g1 only
CutoffOffsets == {0, 1 * Minute, 3 * Minute}

InitCutoff == InitAt(16 * Hour + 30 * Minute)

NextCutoff ==
  \/ \E u \in Users : Message("g1", u)
  \/ Message("g2", "cust")
  \/ \E i \in 1..MaxMsgs : TaskStart(i)
  \/ \E i \in 1..MaxMsgs : TaskCancelled(i)
  \/ \E i \in 1..MaxMsgs : TaskFire(i)
  \/ \E i \in 1..MaxMsgs : Deliver(i)
  \/ \E i \in 1..MaxMsgs : SendReturn(i)
  \/ \E i \in 1..MaxMsgs : SendFail(i)
  \/ \E o \in CutoffOffsets : Tick(start + o)
  \/ TimerDue

SpecCutoff == InitCutoff /\ [][NextCutoff]_vars

\* commands and plain messages in a group and a direct chat on a Tuesday morning
\* (office open: no timer is armed); the group's buffer holds the last n of the
\* earlier updates -4..0, all of them commands of the pre-authorized staff member
EarlierUpdates(n) == [k \in 1..n |-> k - n]

InitTranscript ==
  \E n \in 0..TRANSCRIPT_MAX_MESSAGES :
    /\ InitExceptBuffers(DaySeconds + 10 * Hour)
    /\ procs = [p \in Procs |-> IF p = 1 THEN "polling" ELSE "new"]
    /\ chat_buffers = [c \in Chats |-> IF c = "g1" THEN EarlierUpdates(n) ELSE <<>>]

NextTranscript ==
  \/ \E u \in Users : Message("g1", u)
  \/ \E c \in {"g1", "dm"}, u \in Users, kind \in CommandKinds, ok \in BOOLEAN :
       Command(c, u, kind, ok)

SpecTranscript == InitTranscript /\ [][NextTranscript]_vars

StaffStart == 5 * DaySeconds + 10 * Hour
StaffOffsets == {0, 2 * Minute, 4 * Minute}

InitStaff == InitAt(StaffStart)

NextStaff ==
  \/ \E c \in {"team", "g1"}, u \in Users : Message(c, u)
  \/ \E c \in {"team", "g1"}, u \in Users, kind \in CommandKinds, ok \in BOOLEAN :
       Command(c, u, kind, ok)
  \/ \E i \in 1..MaxMsgs : TaskStart(i)
  \/ \E i \in 1..MaxMsgs : TaskCancelled(i)
  \/ \E i \in 1..MaxMsgs : TaskFire(i)
  \/ \E i \in 1..MaxMsgs : Deliver(i)
  \/ \E i \in 1..MaxMsgs : SendReturn(i)
  \/ \E i \in 1..MaxMsgs : SendFail(i)
  \/ \E o \in StaffOffsets : Tick(start + o)
  \/ TimerDue

SpecStaff == InitStaff /\ [][NextStaff]_vars

\* ---------------------------------------------------------------- properties
KeyOf(i) == _period_key(tasks[i].chat, tasks[i].period)
SameKey(i, j) == KeyOf(i) = KeyOf(j)
ArmTime(i) == SecondsOf(tasks[i].token)
Dispatched(i) == tasks[i].sentAt # None

\* the step in which task i calls send_message
DispatchStep(i) == tasks[i].pc = "sleep" /\ tasks'[i].pc = "send"

\* the step in which task i resumes from its sleep with the delay elapsed
FireStep(i) == tasks[i].pc = "sleep" /\ ~tasks[i].cancel /\ tasks'[i].pc # "sleep"

\* the age of the chat's last staff message in this state, or None
StaffAge(c) == last_auth_msg_age(c)

\* i and j > i arm the same key and every message of that key from i to j came
\* less than FLOOD_BUFFER_SECONDS after the one before it
Chained(i, j) ==
  /\ i < j
  /\ SameKey(i, j)
  /\ \A m \in i..(j - 1) : SameKey(i, m) =>
       \E n \in (m + 1)..j : /\ SameKey(i, n)
                             /\ \A x \in (m + 1)..(n - 1) : ~SameKey(i, x)
                             /\ ArmTime(n) - ArmTime(m) < FLOOD_BUFFER_SECONDS

\* C1: of the messages of one burst (same chat, same kind, every gap shorter than
\* FLOOD_BUFFER_SECONDS) only the last can lead to a notice, so the burst gets at
\* most one, and no notice is sent earlier than FLOOD_BUFFER_SECONDS after the
\* message that armed it.
C1_Debounce ==
  \A i \in DOMAIN tasks :
    Dispatched(i) =>
      /\ tasks[i].sentAt >= ArmTime(i) + FLOOD_BUFFER_SECONDS
      /\ \A j \in DOMAIN tasks : ~Chained(i, j)

C1_Witness ==
  \E i, j \in DOMAIN tasks : Chained(i, j) /\ Dispatched(j) /\ tasks[j].delivered

\* C2: a task sends only in a step in which its token is the key's current token;
\* a task that finds another token when its delay has elapsed ends without sending.
C2_TokenInvalidation ==
  [][\A i \in DOMAIN tasks :
       FireStep(i) /\ DEBOUNCE_TOKEN[KeyOf(i)] # tasks[i].token
         => tasks'[i].pc = "done" /\ tasks'[i].sentAt = None]_vars

\* a task outlived a newer arm of its key, woke with the stale token and sent nothing
C2_Witness ==
  \E i, j \in DOMAIN tasks :
    /\ i < j
    /\ SameKey(i, j)
    /\ tasks[i].result = "stale"
    /\ tasks[i].wake > ArmTime(j)
    /\ ~Dispatched(i)

\* C3: a task never calls send_message once a staff message has been handled in its
\* chat after the customer message that armed it.
C3_StaffPreempts ==
  [][\A i \in DOMAIN tasks :
       DispatchStep(i) =>
         \/ LAST_AUTH_MSG_AT[tasks[i].chat] = NoToken
         \/ Before(LAST_AUTH_MSG_AT[tasks[i].chat], tasks[i].token)]_vars

\* a staff message came while the timer was armed, and the timer ended without sending
C3_Witness ==
  \E i \in DOMAIN tasks :
    /\ tasks[i].pc = "done"
    /\ ~Dispatched(i)
    /\ LAST_AUTH_MSG_AT[tasks[i].chat] # NoToken
    /\ Before(tasks[i].token, LAST_AUTH_MSG_AT[tasks[i].chat])
    /\ SecondsOf(LAST_AUTH_MSG_AT[tasks[i].chat]) < ArmTime(i) + FLOOD_BUFFER_SECONDS

ClosedKinds == {"AM", "PM", "WE"}

\* C4: a BeforeOpen, AfterClose or Weekend timer sends nothing when it fires less
\* than one hour after the chat's last staff message, and no timer that fires two
\* hours or more after it is stopped by the staff suppression.
C4_StaffSuppressionBounds ==
  [][\A i \in DOMAIN tasks :
       LET c == tasks[i].chat
       IN /\ (DispatchStep(i) /\ tasks[i].period \in ClosedKinds /\ StaffAge(c) # None)
               => StaffAge(c) >= AFTER_HOURS_MIN_SILENCE_FOR_SPIEL_HOURS * Hour
          /\ (FireStep(i) /\ tasks'[i].result = "staff")
               => StaffAge(c) < AFTER_HOURS_SUPPRESSION_WINDOW_HOURS * Hour]_vars

\* one timer was stopped by the suppression, a later one sent two hours or more
\* after the staff message
C4_Witness ==
  \E i, j \in DOMAIN tasks :
    /\ tasks[i].result = "staff"
    /\ tasks[j].chat = tasks[i].chat
    /\ tasks[j].period \in ClosedKinds
    /\ tasks[j].pc = "send"
    /\ StaffAge(tasks[j].chat) >= AFTER_HOURS_SUPPRESSION_WINDOW_HOURS * Hour

\* C5 as stated: no BeforeOpen, AfterClose or Weekend notice is sent strictly between
\* one and two hours after the chat's last staff message.
C5_SuppressedBetweenBounds ==
  [][\A i \in DOMAIN tasks :
       (DispatchStep(i) /\ tasks[i].period \in ClosedKinds /\ StaffAge(tasks[i].chat) # None)
         => ~( StaffAge(tasks[i].chat) > AFTER_HOURS_MIN_SILENCE_FOR_SPIEL_HOURS * Hour
               /\ StaffAge(tasks[i].chat) < AFTER_HOURS_SUPPRESSION_WINDOW_HOURS * Hour )]_vars

\* C5 amended: the staff suppression stops no timer that fires one hour or more
\* after the chat's last staff message, so between the two bounds it stops none.
C5_AllowedFromThreshold ==
  [][\A i \in DOMAIN tasks :
       (FireStep(i) /\ tasks'[i].result = "staff")
         => StaffAge(tasks[i].chat) < AFTER_HOURS_MIN_SILENCE_FOR_SPIEL_HOURS * Hour]_vars

\* a notice was sent strictly between one and two hours after the staff message
C5_Witness ==
  \E i \in DOMAIN tasks :
    /\ tasks[i].period \in ClosedKinds
    /\ tasks[i].pc = "send"
    /\ StaffAge(tasks[i].chat) # None
    /\ StaffAge(tasks[i].chat) > AFTER_HOURS_MIN_SILENCE_FOR_SPIEL_HOURS * Hour
    /\ StaffAge(tasks[i].chat) < AFTER_HOURS_SUPPRESSION_WINDOW_HOURS * Hour

RollingKinds == {"WE", "LUNCH", "CUTOFF"}
DailyKinds == {"AM", "PM"}

\* C6: two Weekend notices (two Lunch notices, two ApproachingCutoff notices)
\* delivered to the same chat are at least 7200 seconds apart.
C6_RollingCooldown ==
  \A i, j \in DOMAIN tasks :
    ( /\ i < j
      /\ SameKey(i, j)
      /\ tasks[i].period \in RollingKinds
      /\ tasks[i].delivered
      /\ tasks[j].delivered )
    => tasks[j].sentAt - tasks[i].sentAt >= COOLDOWN_SECONDS

\* C7: two BeforeOpen notices (two AfterClose notices) delivered to the same chat
\* are delivered on different calendar dates.
C7_OncePerDay ==
  \A i, j \in DOMAIN tasks :
    ( /\ i < j
      /\ SameKey(i, j)
      /\ tasks[i].period \in DailyKinds
      /\ tasks[i].delivered
      /\ tasks[j].delivered )
    => DateOf(tasks[j].sentAt) # DateOf(tasks[i].sentAt)

\* the office-state predicate under which message_handler arms period p, at instant t
KindPredicate(p, t) ==
  IF p = "AM" THEN ~is_weekend(t) /\ TimeOf(t) < WEEKDAY_START
  ELSE IF p = "PM" THEN ~is_weekend(t) /\ TimeOf(t) >= WEEKDAY_END
  ELSE IF p = "WE" THEN is_weekend(t)
  ELSE IF p = "LUNCH" THEN is_lunch_time(t)
  ELSE ~is_weekend(t) /\ WEEKDAY_CUTOFF <= TimeOf(t) /\ TimeOf(t) <= WEEKDAY_END

\* C8: every notice is sent at an instant at which the predicate of its own kind holds.
C8_KindPredicateAtDispatch ==
  \A i \in DOMAIN tasks : Dispatched(i) => KindPredicate(tasks[i].period, tasks[i].sentAt)

\* no message was handled in the chat of task i after the message that armed it
NoLaterMessage(i) ==
  LET c == tasks[i].chat
  IN /\ \A j \in DOMAIN tasks : j > i => tasks[j].chat # c
     /\ LAST_AUTH_MSG_AT[c] = NoToken \/ Before(LAST_AUTH_MSG_AT[c], tasks[i].token)

\* an AfterClose notice was delivered to chat c on the date of instant t
AfterCloseDeliveredOn(c, t) ==
  \E j \in DOMAIN tasks :
    /\ tasks[j].chat = c
    /\ tasks[j].period = "PM"
    /\ tasks[j].delivered
    /\ DateOf(tasks[j].sentAt) = DateOf(t)

\* the AfterClose timer of task i is pending under the conditions of C9: nothing
\* was handled in its chat after the message that armed it, the last staff message
\* was an hour old or older at that message, no AfterClose notice was delivered on
\* that date
C9_Pending(i) ==
  /\ i \in DOMAIN tasks
  /\ tasks[i].period = "PM"
  /\ tasks[i].pc \in {"created", "sleep"}
  /\ NoLaterMessage(i)
  /\ \/ LAST_AUTH_MSG_AT[tasks[i].chat] = NoToken
     \/ ArmTime(i) - SecondsOf(LAST_AUTH_MSG_AT[tasks[i].chat]) >= Hour
  /\ ~AfterCloseDeliveredOn(tasks[i].chat, ArmTime(i))

\* the notice of task i was sent on time, or a condition of C9 no longer holds
C9_Settled(i) ==
  /\ i \in DOMAIN tasks
  /\ \/ Dispatched(i) /\ tasks[i].sentAt = ArmTime(i) + FLOOD_BUFFER_SECONDS
     \/ ~NoLaterMessage(i)
     \/ AfterCloseDeliveredOn(tasks[i].chat, ArmTime(i))
     \/ DateOf(now) # DateOf(ArmTime(i))

\* C9: the AfterClose timer armed by the last customer message of a burst, with no
\* staff message in the chat during the hour before that message, no AfterClose
\* notice delivered yet on that date, no later message, and the date unchanged when
\* the delay has elapsed, does send its notice, exactly FLOOD_BUFFER_SECONDS after
\* that message; every earlier message of the burst sends none.
C9_BurstAbsorption ==
  /\ [][\A i \in DOMAIN tasks :
          ( /\ FireStep(i)
            /\ tasks[i].period = "PM"
            /\ NoLaterMessage(i)
            /\ \/ LAST_AUTH_MSG_AT[tasks[i].chat] = NoToken
               \/ ArmTime(i) - SecondsOf(LAST_AUTH_MSG_AT[tasks[i].chat]) >= Hour
            /\ ~AfterCloseDeliveredOn(tasks[i].chat, now)
            /\ DateOf(now) = DateOf(ArmTime(i)) )
          => /\ tasks'[i].pc = "send"
             /\ tasks'[i].sentAt = ArmTime(i) + FLOOD_BUFFER_SECONDS
             /\ \A j \in DOMAIN tasks : Chained(j, i) => ~Dispatched(j)]_vars
  /\ \A i \in 1..MaxMsgs : C9_Pending(i) ~> C9_Settled(i)

\* a burst of AfterClose messages after a staff message an hour old or older: the
\* last one's notice was sent on time and delivered, the earlier one's was not sent
C9_Witness ==
  \E i, j \in DOMAIN tasks :
    /\ Chained(j, i)
    /\ tasks[i].period = "PM"
    /\ LAST_AUTH_MSG_AT[tasks[i].chat] # NoToken
    /\ NoLaterMessage(i)
    /\ tasks[i].delivered
    /\ tasks[i].result = "ok"
    /\ tasks[i].sentAt = ArmTime(i) + FLOOD_BUFFER_SECONDS
    /\ ~Dispatched(j)

\* the chats the broadcaster sent the last call to at instant t
LastCallSentAt(t) ==
  {lastCalls[k].chat : k \in {n \in DOMAIN lastCalls : lastCalls[n].at = t}}

\* C10: the iteration of the broadcaster that runs in the last-call minute of a
\* weekday takes as targets exactly the chats whose last activity is dated today
\* and which are not silent (command-only) groups, and when it goes back to sleep
\* it has sent the last call to each target once and to no other chat.
C10_BroadcastMembership ==
  [][/\ (lcPc = "sleep" /\ lcPc' = "send") =>
          /\ WeekdayOf(now) < 5
          /\ lcTargets' = {c \in Chats : /\ LAST_CHAT_ACTIVITY[c] = DateOf(now)
                                         /\ c \notin SILENT_GROUP_IDS}
     /\ (lcPc = "send" /\ lcPc' = "send") => lcTargets' = lcTargets
     /\ (lcPc = "send" /\ lcPc' = "sleep") =>
          /\ LastCallSentAt(now) = lcTargets
          /\ Cardinality({n \in DOMAIN lastCalls : lastCalls[n].at = now})
               = Cardinality(lcTargets)]_vars

\* Tuesday's broadcast is over: g1, active on Tuesday, got the last call; the silent
\* staff group, active on Tuesday, and the direct chat, active on Monday only, did not
C10_Witness ==
  /\ lcPc = "sleep"
  /\ LAST_CHAT_ACTIVITY["g1"] = 1
  /\ LAST_CHAT_ACTIVITY["team"] = 1
  /\ LAST_CHAT_ACTIVITY["dm"] = 0
  /\ \E t \in {now} : /\ DateOf(t) = 1
                      /\ lastCalls # <<>>
                      /\ lastCalls[Len(lastCalls)].at = t
                      /\ LastCallSentAt(t) = {"g1"}

\* C11: the loop's test passes in at most one iteration per calendar date, and no
\* chat is sent the last call twice on one date.
C11_BroadcastAtMostOnce ==
  /\ \A j, k \in DOMAIN lcRuns : j # k => DateOf(lcRuns[j]) # DateOf(lcRuns[k])
  /\ \A j, k \in DOMAIN lastCalls :
       (j # k /\ lastCalls[j].chat = lastCalls[k].chat)
         => DateOf(lastCalls[j].at) # DateOf(lastCalls[k].at)

\* the broadcaster ran on Monday and on Tuesday and g1 got the last call on both days
C11_Witness ==
  /\ Len(lcRuns) = 2
  /\ lcPc = "sleep"
  /\ \E j, k \in DOMAIN lastCalls :
       /\ lastCalls[j].chat = "g1" /\ DateOf(lastCalls[j].at) = 0
       /\ lastCalls[k].chat = "g1" /\ DateOf(lastCalls[k].at) = 1

\* the last-call minute of date d lies wholly within the run so far
MinuteWithinRun(d) ==
  /\ d % 7 < 5
  /\ start <= d * DaySeconds + LAST_CALL_TIME
  /\ now >= d * DaySeconds + LAST_CALL_TIME + Minute

\* C12: once the last-call minute of a weekday has gone by with the process running,
\* an iteration of the loop has passed the test on that date.
C12_BroadcastNotMissed ==
  \A d \in 0..6 : MinuteWithinRun(d) => \E k \in DOMAIN lcRuns : DateOf(lcRuns[k]) = d

\* C13: no step takes a user out of team_user_ids or makes is_authorized_user false
\* for a user; a message or command handled in a staff-source chat makes its sender
\* authorized; and a plain message of an authorized user in any chat that is not
\* command-only is handled as a staff message (timestamp recorded, nothing armed).
C13_StaffPromotion ==
  [][/\ team_user_ids \subseteq team_user_ids'
     /\ \A u \in Users :
          is_authorized_user(team_user_ids, u) => is_authorized_user(team_user_ids', u)
     /\ \A c \in AIS_TEAM_CHAT_IDS, u \in Users :
          (Message(c, u) \/ \E kind \in CommandKinds, ok \in BOOLEAN : Command(c, u, kind, ok))
            => is_authorized_user(team_user_ids', u)
     /\ \A c \in Chats \ SILENT_GROUP_IDS, u \in Users :
          (is_authorized_user(team_user_ids, u) /\ Message(c, u))
            => /\ LAST_AUTH_MSG_AT'[c] = now_in_timezone
               /\ Len(tasks') = Len(tasks)]_vars

\* the not preauthorized user armed a timer in g1 as a customer, was then recorded in
\* the staff group, and its next message in g1 was handled as a staff message
C13_Witness ==
  /\ "cust" \in team_user_ids
  /\ "cust" \notin PREAUTHORIZED_USER_IDS
  /\ msgs = 3
  /\ Len(tasks) = 1
  /\ tasks[1].chat = "g1"
  /\ LAST_AUTH_MSG_AT["g1"] # NoToken
  /\ Before(tasks[1].token, LAST_AUTH_MSG_AT["g1"])

\* the step in which the send_message call of task i raises
SendErrorStep(i) == tasks[i].pc = "send" /\ tasks'[i].result = "error"

\* C14: in the step in which send_message raises, the task ends, the registry entry
\* of its key is cleared, and neither a once-per-day gate nor a last-sent time is
\* written; the task does nothing afterwards.
C14_DispatchFailure ==
  [][\A i \in DOMAIN tasks :
       /\ SendErrorStep(i) =>
            /\ tasks'[i].pc = "done"
            /\ ~tasks'[i].delivered
            /\ PENDING_TASK'[KeyOf(i)] = 0
            /\ UNCHANGED ledgerVars
            /\ UNCHANGED DEBOUNCE_TOKEN
       /\ tasks[i].result = "error" => tasks'[i] = tasks[i]]_vars

\* after a failed send a later customer message armed the same key again and its
\* notice was delivered although the first attempt was made on the same date, less
\* than the cooldown before
C14_Witness ==
  \E i, j \in DOMAIN tasks :
    /\ i < j
    /\ SameKey(i, j)
    /\ tasks[i].result = "error"
    /\ tasks[j].result = "ok"
    /\ tasks[j].delivered
    /\ DateOf(tasks[j].sentAt) = DateOf(tasks[i].sentAt)
    /\ tasks[j].sentAt - tasks[i].sentAt < COOLDOWN_SECONDS

\* a delayed task that has been scheduled, has not finished and has not been
\* asked to stop
LiveTimer(i) == Live(i) /\ ~tasks[i].cancel

\* C15: for each key at most one delayed task is scheduled and not yet finished
\* (a task whose cancellation has been requested is not counted).
C15_OneLiveTimerPerKey ==
  \A i, j \in DOMAIN tasks : (LiveTimer(i) /\ LiveTimer(j) /\ SameKey(i, j)) => i = j

\* two uncancelled tasks of one key are asleep at once
C15_Witness ==
  \E i, j \in DOMAIN tasks :
    /\ i < j
    /\ SameKey(i, j)
    /\ tasks[i].pc = "sleep" /\ ~tasks[i].cancel
    /\ tasks[j].pc = "sleep" /\ ~tasks[j].cancel

\* the step in which CancelledError ends task i
CancelledStep(i) == tasks[i].pc # "done" /\ tasks'[i].result = "cancelled"

\* C16: task.cancel() only ends tasks that the token check at fire time would have
\* ended without a notice: a task ended by cancellation has not called send_message
\* and its token is no longer the latest of its key, so that with cancel() a no-op
\* the same notices are delivered.
C16_CancellationNotRequired ==
  [][\A i \in DOMAIN tasks :
       CancelledStep(i) =>
         /\ ~Dispatched(i)
         /\ ~_is_latest_token(tasks[i].chat, tasks[i].period, tasks[i].token)]_vars

\* a task passed the token check and the window checks, called send_message and was
\* ended by cancellation before the notice was delivered
C16_Witness ==
  \E i \in DOMAIN tasks :
    /\ tasks[i].result = "cancelled"
    /\ Dispatched(i)
    /\ ~tasks[i].delivered

\* the calls of mark_sent(c, tag) logged before call k
MarksBefore(k, c, tag) ==
  {m \in 1..(k - 1) : calls[m].op = "mark_sent" /\ calls[m].args = <<c, tag>>}

\* C17: a call of already_sent(c, tag, window) made after mark_sent(c, tag) returns
\* true when less than window seconds have gone by since the last such mark_sent and
\* false when window seconds or more have; the call leaves every variable of the
\* program as it is, and two calls at the same instant return the same value.
C17_CooldownCheck ==
  /\ \A k \in DOMAIN calls :
       (calls[k].op = "already_sent"
          /\ MarksBefore(k, calls[k].args[1], calls[k].args[2]) # {})
         => LET marks == MarksBefore(k, calls[k].args[1], calls[k].args[2])
                last == CHOOSE m \in marks : \A n \in marks : n <= m
            IN calls[k].result = (calls[k].at - calls[last].at < calls[k].args[3])
  /\ \A j, k \in DOMAIN calls :
       (calls[j].op = "already_sent" /\ calls[k].op = "already_sent" /\ k = j + 1
          /\ calls[j].args = calls[k].args /\ calls[j].at = calls[k].at)
         => calls[j].result = calls[k].result

\* the check was made one second before the end of the two-hour window and at its
\* end, across midnight, and answered true and then false
C17_Witness ==
  /\ Len(calls) = 3
  /\ calls[1].op = "mark_sent" /\ calls[1].at = CooldownStart
  /\ calls[2].op = "already_sent" /\ calls[2].args[3] = COOLDOWN_SECONDS
  /\ calls[2].at = CooldownStart + COOLDOWN_SECONDS - 1 /\ calls[2].result
  /\ calls[3].op = "already_sent" /\ calls[3].args[3] = COOLDOWN_SECONDS
  /\ calls[3].at = CooldownStart + COOLDOWN_SECONDS /\ ~calls[3].result

\* the calls of is_office_open logged at time of day t of a weekday
OfficeCallsAt(t) ==
  {k \in DOMAIN calls :
     calls[k].op = "is_office_open" /\ WeekdayOf(calls[k].at) < 5 /\ TimeOf(calls[k].at) = t}

\* C18: on a weekday is_office_open reports open at 09:00 and at 17:00 and closed at
\* 08:59 and at 17:01; it reports before_cutoff at 16:30 and not at 16:31; on
\* Saturday and Sunday both results are false at every time.
C18_OfficeBoundaries ==
  /\ \A k \in OfficeCallsAt(9 * Hour) : calls[k].result[1]
  /\ \A k \in OfficeCallsAt(17 * Hour) : calls[k].result[1]
  /\ \A k \in OfficeCallsAt(8 * Hour + 59 * Minute) : ~calls[k].result[1]
  /\ \A k \in OfficeCallsAt(17 * Hour + 1 * Minute) : ~calls[k].result[1]
  /\ \A k \in OfficeCallsAt(16 * Hour + 30 * Minute) : calls[k].result[2]
  /\ \A k \in OfficeCallsAt(16 * Hour + 31 * Minute) : ~calls[k].result[2]
  /\ \A k \in DOMAIN calls :
       (calls[k].op = "is_office_open" /\ WeekdayOf(calls[k].at) >= 5)
         => calls[k].result = <<FALSE, FALSE>>

\* the call at 17:00:00 of a Friday answered open and after the cutoff, the call one
\* second later answered closed
C18_Witness ==
  /\ Len(calls) = 2
  /\ calls[1].at = 4 * DaySeconds + 17 * Hour
  /\ calls[1].result = <<TRUE, FALSE>>
  /\ calls[2].at = 4 * DaySeconds + 17 * Hour + 1
  /\ calls[2].result = <<FALSE, FALSE>>

\* C19: a plain message handled in a chat of SILENT_GROUP_IDS, from any sender,
\* leaves the timers, the tokens and the registry of pending tasks as they are; no
\* timer task exists for such a chat and no last call is sent to one.
C19_CommandOnlyChats ==
  [][/\ \A c \in SILENT_GROUP_IDS, u \in Users :
          Message(c, u) => UNCHANGED <<tasks, DEBOUNCE_TOKEN, PENDING_TASK>>
     /\ \A i \in DOMAIN tasks' : tasks'[i].chat \notin SILENT_GROUP_IDS
     /\ \A k \in DOMAIN lastCalls' : lastCalls'[k].chat \notin SILENT_GROUP_IDS]_vars

\* after the cutoff a customer wrote in a group, which armed a timer, and at the same
\* instant in the command-only group, which armed none; the command-only group was
\* active today and the last call of today went to the other group only
C19_Witness ==
  /\ "cust" \in team_user_ids
  /\ Len(tasks) = 1
  /\ tasks[1].chat = "g1"
  /\ ArmTime(1) = now
  /\ PeriodToArm("team") = "CUTOFF"
  /\ LAST_CHAT_ACTIVITY["team"] = DateOf(now)
  /\ Len(lastCalls) = 1
  /\ lastCalls[1].chat = "g1"
  /\ DateOf(lastCalls[1].at) = DateOf(now)

\* the scheduler state of chat c: tokens, pending-task entries, last staff message,
\* once-per-day gates and last-sent times
ChatState(c) ==
  <<[p \in Periods |-> DEBOUNCE_TOKEN[_period_key(c, p)]],
    [p \in Periods |-> PENDING_TASK[_period_key(c, p)]],
    LAST_AUTH_MSG_AT[c],
    CLOSED_SENT_TODAY_AM[c],
    CLOSED_SENT_TODAY_PM[c],
    [tag \in {"weekend", "lunch", "cutoff"} |-> chat_last_response[<<c, tag>>]]>>

\* this step handles a message or a command of chat a, or is a step of a timer of a
StepOf(a) ==
  \/ \E u \in Users : Message(a, u)
  \/ \E u \in Users, kind \in CommandKinds, ok \in BOOLEAN : Command(a, u, kind, ok)
  \/ \E i \in DOMAIN tasks :
       /\ tasks[i].chat = a
       /\ \/ TaskStart(i) \/ TaskCancelled(i) \/ TaskFire(i)
          \/ Deliver(i) \/ SendReturn(i) \/ SendFail(i)

\* C20: a step that handles a message or a command of chat a, or in which a timer of
\* a runs, leaves the tokens, pending-task entries, last staff message, gates and
\* last-sent times of every other chat as they are.
C20_ConversationIsolation ==
  [][\A a \in Chats : StepOf(a) => \A b \in Chats \ {a} : ChatState(b)' = ChatState(b)]_vars

\* g1's notice was sent and recorded while g2 holds a token of its own, a cancelled
\* timer and a staff message, and neither chat shows the other's records
C20_Witness ==
  /\ chat_last_response[<<"g1", "weekend">>] # Absent
  /\ chat_last_response[<<"g2", "weekend">>] = Absent
  /\ LAST_AUTH_MSG_AT["g1"] = NoToken
  /\ LAST_AUTH_MSG_AT["g2"] # NoToken
  /\ \E i, j \in DOMAIN tasks :
       /\ tasks[i].chat = "g1" /\ tasks[i].result = "ok"
       /\ tasks[j].chat = "g2" /\ tasks[j].result = "cancelled"
       /\ ArmTime(j) < tasks[i].sentAt
       /\ tasks[i].sentAt < SecondsOf(LAST_AUTH_MSG_AT["g2"])
  /\ DEBOUNCE_TOKEN[_period_key("g1", "WE")] # DEBOUNCE_TOKEN[_period_key("g2", "WE")]

\* the step in which the broadcaster's send_message to a target raises
LastCallErrorStep ==
  /\ Len(lastCalls') = Len(lastCalls) + 1
  /\ ~lastCalls'[Len(lastCalls')].ok

\* C21: a failed send of the last call leaves the for loop running with the same
\* targets; when the loop goes back to sleep every target of the iteration has had
\* its send, failed or not, and the next wake-up is set.
C21_BroadcastFailureIsolation ==
  [][/\ LastCallErrorStep =>
          /\ lcPc' = "send"
          /\ lcTargets' = lcTargets
          /\ lcDone' \subseteq lcTargets
          /\ Cardinality(lcDone') = Cardinality(lcDone) + 1
     /\ (lcPc = "send" /\ lcPc' = "sleep") =>
          /\ \A c \in lcTargets : \E k \in DOMAIN lastCalls :
               lastCalls[k].chat = c /\ lastCalls[k].at = now
          /\ lcWake' > now]_vars

\* Monday's first send failed, the second target was served after it in the same
\* iteration, and the loop broadcast again on Tuesday
C21_Witness ==
  /\ Len(lastCalls) = 3
  /\ ~lastCalls[1].ok
  /\ lastCalls[2].ok
  /\ lastCalls[2].at = lastCalls[1].at
  /\ lastCalls[2].chat # lastCalls[1].chat
  /\ DateOf(lastCalls[1].at) = 0
  /\ DateOf(lastCalls[3].at) = 1
  /\ lastCalls[3].ok

\* C22: of the processes started on one host at most one is past the conflict guard,
\* and a process whose guard failed stays returned: it never registers handlers,
\* starts the broadcaster or polls.
C22_SingleInstance ==
  [][/\ Cardinality({p \in Procs : procs'[p] \in {"guarded", "polling"}}) <= 1
     /\ \A p \in Procs : procs[p] = "returned" => procs'[p] = "returned"
     /\ \A p \in Procs : procs'[p] = "polling" => procs[p] \in {"guarded", "polling"}]_vars

\* process 1 is polling; process 2, which bound the port before process 1 listened,
\* has returned at listen(); process 3 returned at the guard as well and process 4
\* is bound and still has to call listen()
C22_Witness ==
  /\ procs[1] = "polling"
  /\ procs[2] = "returned"
  /\ procs[3] = "returned"
  /\ procs[MaxProcs] = "bound"

\* C23: a command of a user who is not staff, in a chat that is not a staff-source
\* chat, runs no handler body: if anything is replied it is "Not authorized.", and
\* the transcript buffers, the staff set, the last staff messages, the tokens, the
\* timers and their registry, the activity ledger and the send records stay as they are.
C23_CommandsAuthorizedOnly ==
  [][\A c \in Chats \ AIS_TEAM_CHAT_IDS, u \in Users, kind \in CommandKinds, ok \in BOOLEAN :
       (u \notin team_user_ids /\ u \notin PREAUTHORIZED_USER_IDS /\ Command(c, u, kind, ok))
         => /\ lastReply' = IF ok THEN Reply(c, "Not authorized.") ELSE lastReply
            /\ UNCHANGED <<chat_buffers, team_user_ids, LAST_AUTH_MSG_AT, DEBOUNCE_TOKEN,
                           PENDING_TASK, tasks, LAST_CHAT_ACTIVITY, known_group_chats,
                           ledgerVars>>]_vars

\* a customer's command in g1 was answered "Not authorized." while the timer armed
\* by the customer's message sleeps on and the buffer holds that message only
C23_Witness ==
  /\ msgs = 2
  /\ lastReply = Reply("g1", "Not authorized.")
  /\ chat_buffers["g1"] = <<1>>
  /\ Len(tasks) = 1
  /\ tasks[1].chat = "g1" /\ tasks[1].pc = "sleep" /\ ~tasks[1].cancel
  /\ DEBOUNCE_TOKEN[KeyOf(1)] = tasks[1].token
  /\ team_user_ids = PREAUTHORIZED_USER_IDS

\* C24: a command that is executed for a staff member in a chat and whose reply is
\* sent, whatever the command, stamps the chat's last staff message with the present
\* clock reading and writes a new token for each of the five keys of the chat.
C24_StaffCommandInvalidates ==
  [][\A c \in Chats, u \in Users, kind \in CommandKinds :
       (is_authorized_user(team_user_ids', u) /\ Command(c, u, kind, TRUE))
         => /\ LAST_AUTH_MSG_AT'[c] = now_in_timezone
            /\ \A p \in Periods :
                 /\ DEBOUNCE_TOKEN'[_period_key(c, p)] # NoToken
                 /\ DEBOUNCE_TOKEN'[_period_key(c, p)] # DEBOUNCE_TOKEN[_period_key(c, p)]]_vars

\* a staff member's command other than /lt /apd /mvr /sign /emails was executed in g1
\* after a customer's message: the customer's timer still sleeps with the current
\* token and no staff message is on record for the chat
C24_Witness ==
  /\ msgs = 2
  /\ chat_buffers["g1"] = <<1, 2>>
  /\ lastReply = Reply("g1", "text")
  /\ LAST_AUTH_MSG_AT["g1"] = NoToken
  /\ Len(tasks) = 1
  /\ tasks[1].chat = "g1" /\ tasks[1].pc = "sleep" /\ ~tasks[1].cancel
  /\ DEBOUNCE_TOKEN[KeyOf(1)] = tasks[1].token

\* C25: a step that arms a key or invalidates the keys of a chat writes, for each key
\* concerned, a token that is later than the token the key held and later than the
\* token of every timer of the key created before; afterwards no older timer of the
\* key holds the current token.
C25_TokensIncrease ==
  [][/\ \A k \in Keys :
          DEBOUNCE_TOKEN'[k] # DEBOUNCE_TOKEN[k] =>
            /\ DEBOUNCE_TOKEN'[k] # NoToken
            /\ DEBOUNCE_TOKEN[k] # NoToken => Before(DEBOUNCE_TOKEN[k], DEBOUNCE_TOKEN'[k])
            /\ \A i \in DOMAIN tasks :
                 KeyOf(i) = k => Before(tasks[i].token, DEBOUNCE_TOKEN'[k])
     /\ Len(tasks') > Len(tasks) =>
          LET new == tasks'[Len(tasks')]
          IN /\ DEBOUNCE_TOKEN'[_period_key(new.chat, new.period)] = new.token
             /\ DEBOUNCE_TOKEN[_period_key(new.chat, new.period)] # new.token
     /\ \A c \in Chats :
          LAST_AUTH_MSG_AT'[c] # LAST_AUTH_MSG_AT[c] =>
            \A p \in Periods :
              /\ DEBOUNCE_TOKEN'[_period_key(c, p)] # DEBOUNCE_TOKEN[_period_key(c, p)]
              /\ \A i \in DOMAIN tasks :
                   KeyOf(i) = _period_key(c, p)
                     => tasks[i].token # DEBOUNCE_TOKEN'[_period_key(c, p)]]_vars

\* after the clock was set back a key was armed again: an unfinished, uncancelled
\* timer of the key holds a token that is later than the key's current token
C25_Witness ==
  \E i \in DOMAIN tasks :
    /\ LiveTimer(i)
    /\ DEBOUNCE_TOKEN[KeyOf(i)] # NoToken
    /\ Before(DEBOUNCE_TOKEN[KeyOf(i)], tasks[i].token)

\* the kind armed in this step: the period of the task it creates, or "none"
ArmedKind ==
  IF Len(tasks') = Len(tasks) + 1 THEN tasks'[Len(tasks')].period ELSE "none"

\* the kind the order Weekend, Lunch, ApproachingCutoff, AfterClose, BeforeOpen gives
\* for a message in chat c now
KindInOrder(c) ==
  IF c \notin GroupChats THEN "none"
  ELSE IF WeekdayOf(now) >= 5 THEN "WE"
  ELSE IF 12 * Hour + 30 * Minute <= TimeOf(now) /\ TimeOf(now) <= 13 * Hour + 30 * Minute
    THEN "LUNCH"
  ELSE IF 9 * Hour <= TimeOf(now) /\ TimeOf(now) <= 17 * Hour
    THEN (IF TimeOf(now) > 16 * Hour + 30 * Minute THEN "CUTOFF" ELSE "none")
  ELSE IF TimeOf(now) >= 17 * Hour THEN "PM"
  ELSE "AM"

\* the chat's last staff message is of today, at or before 16:30
StaffWroteByCutoff(c) ==
  /\ LAST_AUTH_MSG_AT[c] # NoToken
  /\ DateOf(SecondsOf(LAST_AUTH_MSG_AT[c])) = DateOf(now)
  /\ TimeOf(SecondsOf(LAST_AUTH_MSG_AT[c])) <= 16 * Hour + 30 * Minute

\* this step handles a plain message of a user who is not staff in chat c
CustomerMessage(c) ==
  \E u \in Users : ~is_authorized_user(team_user_ids', u) /\ Message(c, u)

\* C26: a plain message of a user who is not staff, in a chat that is not
\* command-only, creates at most one timer, for the chat, of the kind given by the
\* order Weekend, Lunch, ApproachingCutoff, AfterClose, BeforeOpen, and none in a
\* direct chat or in open hours up to the cutoff.
C26_KindSelection ==
  [][\A c \in Chats \ SILENT_GROUP_IDS :
       CustomerMessage(c) =>
         /\ Len(tasks') <= Len(tasks) + 1
         /\ ArmedKind = KindInOrder(c)
         /\ ArmedKind # "none" => tasks'[Len(tasks')].chat = c]_vars

\* C26 (amended): as stated, except that no ApproachingCutoff timer is created when
\* the chat's last staff message is of today, at or before the cutoff.
C26_KindSelectionUnlessStaffWrote ==
  [][\A c \in Chats \ SILENT_GROUP_IDS :
       CustomerMessage(c) =>
         /\ Len(tasks') <= Len(tasks) + 1
         /\ ArmedKind = IF KindInOrder(c) = "CUTOFF" /\ StaffWroteByCutoff(c)
                          THEN "none" ELSE KindInOrder(c)
         /\ ArmedKind # "none" => tasks'[Len(tasks')].chat = c]_vars

\* Monday 16:31: a customer's message in g2 armed ApproachingCutoff; the customer's
\* message in g1 after it armed nothing, staff having written in g1 at 16:30
C26_Witness ==
  /\ now = 16 * Hour + 31 * Minute
  /\ chat_buffers["g2"] = <<2>>
  /\ chat_buffers["g1"] = <<1, 3>>
  /\ LAST_AUTH_MSG_AT["g1"] # NoToken
  /\ SecondsOf(LAST_AUTH_MSG_AT["g1"]) = 16 * Hour + 30 * Minute
  /\ Len(tasks) = 1
  /\ tasks[1].chat = "g2" /\ tasks[1].period = "CUTOFF" /\ ArmTime(1) = now

\* this step creates an ApproachingCutoff timer for chat c
CutoffArmed(c) ==
  \E i \in DOMAIN tasks' \ DOMAIN tasks :
    tasks'[i].chat = c /\ tasks'[i].period = "CUTOFF"

\* in this step an ApproachingCutoff timer of chat c calls send_message
CutoffDispatched(c) ==
  \E i \in DOMAIN tasks :
    tasks[i].chat = c /\ tasks[i].period = "CUTOFF" /\ DispatchStep(i)

\* C27: while the last recorded staff message of a chat is of today, at or before
\* 16:30, no ApproachingCutoff timer is created for the chat and none calls
\* send_message for it; the test at arm time and the test at fire time give the same
\* answer in every state.
C27_CutoffSuppressedByStaff ==
  /\ [][\A c \in Chats : StaffWroteByCutoff(c) => ~CutoffArmed(c) /\ ~CutoffDispatched(c)]_vars
  /\ [](\A c \in Chats :
          authorized_initiated_on_or_before_cutoff_today(c) <=> cutoff_suppressed_at_fire(c))

\* staff wrote in g1 at 16:30; at 16:31 a customer wrote in g2 and then in g1: g2's
\* ApproachingCutoff notice was delivered, g1 never had a timer
C27_Witness ==
  /\ LAST_AUTH_MSG_AT["g1"] # NoToken
  /\ SecondsOf(LAST_AUTH_MSG_AT["g1"]) = 16 * Hour + 30 * Minute
  /\ chat_buffers["g1"] = <<1, 3>>
  /\ chat_buffers["g2"] = <<2>>
  /\ Len(tasks) = 1
  /\ tasks[1].chat = "g2" /\ tasks[1].period = "CUTOFF"
  /\ ArmTime(1) = 16 * Hour + 31 * Minute
  /\ tasks[1].delivered

\* C28: every timer task created eventually finishes, and whenever no unfinished
\* timer task exists for a key, PENDING_TASK has no entry for that key.
C28_ReturnsToIdle ==
  /\ \A i \in 1..MaxMsgs : <>[](i \in DOMAIN tasks => ~Live(i))
  /\ [](\A k \in Keys :
          (\A i \in DOMAIN tasks : KeyOf(i) = k => ~Live(i)) => PENDING_TASK[k] = 0)

\* three timers of one key have finished, one by cancellation, one as stale and one
\* after its notice was sent, and the registry is empty
C28_Witness ==
  /\ Len(tasks) = 3
  /\ \A i \in DOMAIN tasks : ~Live(i) /\ SameKey(1, i)
  /\ \E i, j, l \in DOMAIN tasks :
       /\ tasks[i].result = "cancelled"
       /\ tasks[j].result = "stale"
       /\ tasks[l].result = "ok"
  /\ \A k \in Keys : PENDING_TASK[k] = 0

\* task i is unfinished and its token is the current token of its key
HoldsCurrentToken(i) ==
  Live(i) /\ _is_latest_token(tasks[i].chat, tasks[i].period, tasks[i].token)

\* task i ends in this step
EndStep(i) == Live(i) /\ tasks'[i].pc = "done"

\* C29: an unfinished timer task that holds the current token of its key is the
\* task PENDING_TASK maps the key to, and the end of a task never removes the
\* registry entry of another task.
C29_RegistryConsistency ==
  /\ [](\A i \in DOMAIN tasks : HoldsCurrentToken(i) => PENDING_TASK[KeyOf(i)] = i)
  /\ [][\A i \in DOMAIN tasks :
          (EndStep(i) /\ PENDING_TASK[KeyOf(i)] # i) => PENDING_TASK' = PENDING_TASK]_vars

\* a staff message came after task i was armed, and task i is still asleep with no
\* cancellation requested: the staff cancellation did not find it
C29_Witness ==
  \E i \in DOMAIN tasks :
    /\ tasks[i].pc = "sleep"
    /\ ~tasks[i].cancel
    /\ LAST_AUTH_MSG_AT[tasks[i].chat] # NoToken
    /\ Before(tasks[i].token, LAST_AUTH_MSG_AT[tasks[i].chat])

\* this step handles /ssi, /sse or /ssc of a staff member in chat c
TranscriptCommand(c) ==
  \E u \in Users, ok \in BOOLEAN :
    is_authorized_user(team_user_ids', u) /\ Command(c, u, "transcript", ok)

\* C30: the buffer a transcript command reads has the command itself as its newest
\* entry and holds 1 to TRANSCRIPT_MAX_MESSAGES entries, so at most 4 earlier
\* messages; the reply "No recent text messages to capture for this chat." is never
\* sent.
C30_TranscriptNeverEmpty ==
  /\ [][\A c \in Chats :
          TranscriptCommand(c) =>
            LET entries == chat_buffers'[c]
            IN /\ entries # <<>>
               /\ entries[Len(entries)] = msgs'
               /\ Len(entries) >= 1 /\ Len(entries) <= 5
               /\ Len(SelectSeq(entries, LAMBDA e : e # msgs')) <= 4
               /\ lastReply'.text # "No recent text messages to capture for this chat."]_vars
  /\ [](lastReply.text # "No recent text messages to capture for this chat.")

\* /ssi in a group whose buffer was full: the oldest entry was dropped, four earlier
\* entries and the command remain, and the transcript is being prepared
C30_Witness ==
  /\ msgs = 1
  /\ chat_buffers["g1"] = <<-3, -2, -1, 0, 1>>
  /\ lastReply = Reply("g1", "Preparing transcript")

====
